---- MODULE Spec2Model ----
(***************************************************************************)
(* RRSv3Formation.py: formation of the random reference set version 3.     *)
(*                                                                         *)
(* The module follows the __main__ block of RRSv3Formation.py: the group   *)
(* indexes are built once (get_domain_groups, get_slim_groups), then one   *)
(* RRSv3Formation object per replicate label runs                          *)
(* make_random_protein_pairs_with_groups_select_RRS_instances.  That       *)
(* method is cut into its loop heads and statements so that the state      *)
(* between candidate generation, matching and selection is visible.        *)
(*                                                                         *)
(* Protein identifiers are natural numbers; their order stands for the     *)
(* string order that sorted() uses on UniProt ids.  A Python dict is a      *)
(* sequence of [key, val] entries in insertion order; of the match dicts   *)
(* of a Protein only the set of keys is kept.                              *)
(*                                                                         *)
(* DMIDB.py and RRSFormation.py are not part of the sources at hand.  What *)
(* the model needs from them (the known-PPI set, ProteinPair,              *)
(* find_DMI_matches, RRSFormation.__init__, write_out_RRS_instances) is    *)
(* written from the design document and from the way RRSv3Formation.py     *)
(* uses it.                                                                *)
(***************************************************************************)
EXTENDS Naturals, Sequences, FiniteSets

VARIABLES InterfaceHandling, number_instances, RRS_version, RRS,
          RRS_instances, slim_idx, domains, domain_idx,
          random_protein_pair, pc

vars == <<InterfaceHandling, number_instances, RRS_version, RRS,
          RRS_instances, slim_idx, domains, domain_idx,
          random_protein_pair, pc>>

(***************************************************************************)
(* Bounds of the model and constants of the program                        *)
(***************************************************************************)

\* 50: the largest number of protein pairs drawn per domain group
PairCap == 50

\* largest number_instances (sys.argv[11]) explored for the small proteomes
MaxInstances == 2

\* number of replicate labels in RRS_version (sys.argv[12:])
NumReplicates == 2

\* length of the list of DMI matches the matcher reports for a pair and a
\* DMI type that match
MaxMatches == 2

\* the answers of the matcher are enumerated pair by pair for up to this
\* many pairs; for more pairs it gives the same answer for every pair
MaxFreePairs == 3

(***************************************************************************)
(* Python helpers                                                          *)
(***************************************************************************)

Range(s) == {s[i] : i \in 1..Len(s)}

\* keys of an insertion-ordered dict, in iteration order
Keys(d) == [i \in 1..Len(d) |-> d[i].key]

KeySet(d) == {d[i].key : i \in 1..Len(d)}

\* d[k]
Get(d, k) == (CHOOSE e \in Range(d) : e.key = k).val

\* d[k]= v : a present key keeps its position, a new key goes last
Put(d, k, v) ==
    IF k \in KeySet(d)
    THEN [i \in 1..Len(d) |-> IF d[i].key = k THEN [key |-> k, val |-> v] ELSE d[i]]
    ELSE Append(d, [key |-> k, val |-> v])

\* any(list_of_ids): identifiers are non-empty strings, hence truthy
any(l) == Len(l) > 0

RemoveAt(s, i) == SubSeq(s, 1, i - 1) \o SubSeq(s, i + 1, Len(s))

\* the sets of d positions out of 1..n
RECURSIVE Positions(_, _)
Positions(n, d) ==
    IF d = 0 THEN {{}}
    ELSE {D \cup {i} : D \in Positions(n, d - 1), i \in 1..n} \ Positions(n, d - 1)

\* s without the elements at the positions of D
Without(s, D) ==
    LET kept == (1..Len(s)) \ D
    IN  [j \in 1..Cardinality(kept) |->
            s[CHOOSE i \in kept : Cardinality({x \in kept : x <= i}) = j]]

\* the k-element subsequences of s, in the order of s
Subseqs(s, k) == {Without(s, D) : D \in Positions(Len(s), Len(s) - k)}

\* random.sample(population, k): k elements at distinct positions, any order
RECURSIVE random_sample(_, _)
random_sample(population, k) ==
    IF k = 0 THEN {<<>>}
    ELSE UNION {{<<population[i]>> \o r : r \in random_sample(RemoveAt(population, i), k - 1)} :
                  i \in 1..Len(population)}

\* the product without the pairs of a protein with itself
product_of_different(a, b) ==
    SelectSeq([i \in 1..(Len(a) * Len(b)) |->
                  <<a[((i - 1) \div Len(b)) + 1], b[((i - 1) % Len(b)) + 1]>>],
              LAMBDA pp : pp[1] # pp[2])

\* list(itertools.product(a, b)): a-major order
product(a, b) ==
    [i \in 1..(Len(a) * Len(b)) |-> <<a[((i - 1) \div Len(b)) + 1], b[((i - 1) % Len(b)) + 1]>>]

\* the pair as drawn, not sorted
unsorted_pair(pp) == <<pp[1], pp[2]>>

\* tuple(sorted(pp))
sorted_pair(pp) == IF pp[1] <= pp[2] THEN <<pp[1], pp[2]>> ELSE <<pp[2], pp[1]>>

(***************************************************************************)
(* The loaded entities (DMIDB readers, outside RRSv3Formation.py)          *)
(***************************************************************************)

\* one entry of dmi_types_dict: the slim id and, per domain interface, the
\* keys of its domain_dict in order
DMIType(slim_id, domain_interfaces) ==
    [key |-> slim_id, val |-> [domain_interfaces |-> domain_interfaces]]

\* one entry of proteins_dict: the keys of the two match dicts of a Protein
Protein(id, domain_matches, slim_matches) ==
    [key |-> id, val |-> [domain_matches_dict |-> domain_matches,
                          slim_matches_dict |-> slim_matches]]

\* one single-interface type and one type with two alternative interfaces
CatalogA ==
    << DMIType("ELM1", << <<"PF1">> >>),
       DMIType("ELM2", << <<"PF2">>, <<"PF3">> >>) >>

\* a single interface of two domains, and a type with two interfaces of
\* which the first has two domains
CatalogB ==
    << DMIType("ELM4", << <<"PF1", "PF2">> >>),
       DMIType("ELM3", << <<"PF2", "PF3">>, <<"PF1">> >>) >>

CatalogBig == << DMIType("ELM1", << <<"PF1">> >>) >>

\* three proteins; domain and motif groups overlap (self pairs, pairs drawn
\* in both orders, a pair generated again for the second interface)
ProteomeOverlap ==
    << Protein(1, {"PF1"}, {}),
       Protein(2, {"PF2"}, {"ELM2"}),
       Protein(3, {"PF3"}, {"ELM1", "ELM2"}) >>

\* the motif group of ELM2 and the domain group of PF3 are empty
ProteomeNoMotif ==
    << Protein(1, {"PF1"}, {"ELM1"}),
       Protein(2, {"PF1"}, {}),
       Protein(3, {"PF2"}, {}) >>

\* the domain groups of PF1 and PF3 are empty: for ELM2 an interface with
\* proteins is followed by one without; proteins 2 and 3 have no domain
\* match
ProteomeNoDomain ==
    << Protein(1, {"PF2"}, {"ELM1"}),
       Protein(2, {}, {"ELM2"}),
       Protein(3, {}, {"ELM2"}) >>

ProteomeB ==
    << Protein(1, {"PF1", "PF2"}, {}),
       Protein(2, {"PF1"}, {"ELM4"}),
       Protein(3, {"PF2", "PF3"}, {"ELM3", "ELM4"}) >>

\* one protein with the domain, PairCap + 1 proteins with the motif: the
\* product of the two groups has one pair more than the cap
ProteomeBig ==
    [i \in 1..(PairCap + 1) |->
        Protein(i, IF i = 1 THEN {"PF1"} ELSE {}, {"ELM1"})]

\* two proteins that both have the domain and the motif: the product of
\* the two groups holds self pairs and both orders of one pair
ProteomeTwin ==
    << Protein(1, {"PF1"}, {"ELM1"}),
       Protein(2, {"PF1"}, {"ELM1"}) >>

Worlds ==
    { [dmi_types_dict |-> CatalogA, proteins_dict |-> ProteomeOverlap, instances |-> 1..MaxInstances],
      [dmi_types_dict |-> CatalogA, proteins_dict |-> ProteomeNoMotif, instances |-> 1..MaxInstances],
      [dmi_types_dict |-> CatalogA, proteins_dict |-> ProteomeNoDomain, instances |-> 1..MaxInstances],
      [dmi_types_dict |-> CatalogB, proteins_dict |-> ProteomeB, instances |-> 1..MaxInstances],
      [dmi_types_dict |-> CatalogBig, proteins_dict |-> ProteomeTwin, instances |-> 1..MaxInstances],
      [dmi_types_dict |-> CatalogBig, proteins_dict |-> ProteomeBig, instances |-> {1}] }

\* known_PPIs after read_in_known_PPIs: pairs of protein ids, sorted; none,
\* or one pair of different proteins and one self pair
KnownChoices == { {}, {<<1, 3>>, <<2, 2>>} }

EmptyDict == <<>>

Init ==
    \E w \in Worlds : \E known \in KnownChoices : \E n \in w.instances :
        /\ InterfaceHandling =
             [dmi_types_dict |-> w.dmi_types_dict,
              proteins_dict |-> w.proteins_dict,
              known_PPIs |-> known,
              domain_groups |-> EmptyDict,
              slim_groups |-> EmptyDict,
              protein_pairs_dict |-> EmptyDict]
        /\ number_instances = n
        /\ RRS_version = [i \in 1..NumReplicates |-> i]
        /\ RRS = 0
        /\ RRS_instances = <<>>
        /\ slim_idx = 0
        /\ domains = <<>>
        /\ domain_idx = 0
        /\ random_protein_pair = <<>>
        /\ pc = "get_domain_groups"

(***************************************************************************)
(* InterfaceHandling.get_domain_groups and get_slim_groups                 *)
(***************************************************************************)

\* the interfaces whose keys the first loop of get_domain_groups sets up
\* for one DMI type (70-74)
registered_interfaces(dmi_type_inst) ==
    IF Len(dmi_type_inst.domain_interfaces) > 1
    THEN dmi_type_inst.domain_interfaces
    ELSE <<dmi_type_inst.domain_interfaces[1]>>

\* self.domain_groups[tuple(...)]= [] for every interface in turn (69-74)
RECURSIVE set_up_domain_groups(_, _)
set_up_domain_groups(domain_groups, dmi_types_dict) ==
    IF dmi_types_dict = <<>> THEN domain_groups
    ELSE LET RECURSIVE set_up(_, _)
             set_up(groups, interfaces) ==
                 IF interfaces = <<>> THEN groups
                 ELSE set_up(Put(groups, Head(interfaces), <<>>), Tail(interfaces))
         IN  set_up_domain_groups(
                 set_up(domain_groups, registered_interfaces(Head(dmi_types_dict).val)),
                 Tail(dmi_types_dict))

\* one domain of a two-domain key is taken to be enough
in_domain_group_of_any(prot_inst, domain_group) ==
    /\ prot_inst.domain_matches_dict # {}
    /\ prot_inst.domain_matches_dict \cap Range(domain_group) # {}

\* whether the second loop of get_domain_groups (77-85) appends the protein
\* to the group of the key
in_domain_group(prot_inst, domain_group) ==
    /\ prot_inst.domain_matches_dict # {}
    /\ \/ /\ Len(domain_group) = 1
          /\ domain_group[1] \in prot_inst.domain_matches_dict
       \/ /\ Len(domain_group) = 2
          /\ prot_inst.domain_matches_dict \cap Range(domain_group) = Range(domain_group)

\* the proteins of the entries, in the order of proteins_dict
prots_of(entries) == [i \in 1..Len(entries) |-> entries[i].key]

get_domain_groups(self) ==
    LET groups == set_up_domain_groups(self.domain_groups, self.dmi_types_dict)
    IN  [self EXCEPT !.domain_groups =
            [i \in 1..Len(groups) |->
                [key |-> groups[i].key,
                 val |-> groups[i].val \o
                         prots_of(SelectSeq(self.proteins_dict,
                                            LAMBDA e : in_domain_group(e.val, groups[i].key)))]]]

\* a protein with slim matches is put into the group of every slim id
in_every_slim_group(prot_inst, id) == prot_inst.slim_matches_dict # {}

\* whether the second loop of get_slim_groups (94-97) appends the protein
\* to the group of the slim id
in_slim_group(prot_inst, id) == id \in prot_inst.slim_matches_dict

get_slim_groups(self) ==
    [self EXCEPT !.slim_groups =
        [i \in 1..Len(self.dmi_types_dict) |->
            [key |-> self.dmi_types_dict[i].key,
             val |-> prots_of(SelectSeq(self.proteins_dict,
                                        LAMBDA e : in_slim_group(e.val, self.dmi_types_dict[i].key)))]]]

locals == <<slim_idx, domains, domain_idx, random_protein_pair>>
inputs == <<number_instances, RRS_version>>

\* __main__, line 175
GetDomainGroups ==
    /\ pc = "get_domain_groups"
    /\ InterfaceHandling' = get_domain_groups(InterfaceHandling)
    /\ pc' = "get_slim_groups"
    /\ UNCHANGED <<inputs, locals, RRS, RRS_instances>>

\* __main__, lines 176-177
GetSlimGroups ==
    /\ pc = "get_slim_groups"
    /\ InterfaceHandling' = get_slim_groups(InterfaceHandling)
    /\ pc' = "for_RRS"
    /\ UNCHANGED <<inputs, locals, RRS, RRS_instances>>

(***************************************************************************)
(* DMIDB.ProteinPair, DMIDB.DMIMatch and InterfaceHandling.find_DMI_matches *)
(***************************************************************************)

\* DMIDB.ProteinPair(pp[0], pp[1]): a pair without DMI matches yet
ProteinPair(proteinA, proteinB) ==
    [proteinA |-> proteinA, proteinB |-> proteinB, dmi_matches_dict |-> EmptyDict]

\* the n-th match record of a DMI type on a protein pair
DMIMatch(slim_id, protpair, n) ==
    [slim_id |-> slim_id, protpair |-> protpair, n |-> n]

\* the dmi_matches_dict of a pair for which the matcher found matches of
\* the DMI types in matched: a list of MaxMatches records for each of them,
\* no key for the other types
dmi_matches(slim_ids, protpair, matched) ==
    LET found == SelectSeq(slim_ids, LAMBDA t : t \in matched)
    IN  [i \in 1..Len(found) |->
            [key |-> found[i],
             val |-> [n \in 1..MaxMatches |-> DMIMatch(found[i], protpair, n)]]]

\* what the matcher can answer: for every pair of protein_pairs_dict the
\* DMI types of which it finds matches (possibly none)
matcher_answers(self) ==
    LET protpairs == KeySet(self.protein_pairs_dict)
        per_pair  == SUBSET KeySet(self.dmi_types_dict)
    IN  IF Cardinality(protpairs) <= MaxFreePairs
        THEN [protpairs -> per_pair]
        ELSE {[protpair \in protpairs |-> matched] : matched \in per_pair}

\* find_DMI_matches(): takes no DMI type and returns nothing; the matches
\* are left in the dmi_matches_dict of every pair of protein_pairs_dict
find_DMI_matches(self, answer) ==
    LET pairs == self.protein_pairs_dict
    IN  [self EXCEPT !.protein_pairs_dict =
            [i \in 1..Len(pairs) |->
                [key |-> pairs[i].key,
                 val |-> [pairs[i].val EXCEPT !.dmi_matches_dict =
                            dmi_matches(Keys(self.dmi_types_dict), pairs[i].key,
                                        answer[pairs[i].key])]]]]

(***************************************************************************)
(* RRSv3Formation.make_random_protein_pairs_with_groups_select_RRS_instances *)
(***************************************************************************)

\* the pairs of the DMI type before are kept
keep_protein_pairs(self) == self

\* line 123
reset_protein_pairs(self) == [self EXCEPT !.protein_pairs_dict = EmptyDict]

\* lines 125-130: for several interfaces the first domain of each, as a
\* string; for one interface the list of its domains
domains_of(dmi_type_inst) ==
    IF Len(dmi_type_inst.domain_interfaces) > 1
    THEN [i \in 1..Len(dmi_type_inst.domain_interfaces) |->
            [is_str |-> TRUE, v |-> dmi_type_inst.domain_interfaces[i][1]]]
    ELSE <<[is_str |-> FALSE, v |-> dmi_type_inst.domain_interfaces[1]]>>

\* lines 132-135: the key looked up in domain_groups
domain_key(domain) == IF domain.is_str THEN <<domain.v>> ELSE domain.v

\* one group with proteins is taken to be enough
one_group_not_empty(domain_prots, slim_prots) == any(domain_prots) \/ any(slim_prots)

\* line 136
groups_not_empty(domain_prots, slim_prots) == any(domain_prots) /\ any(slim_prots)

\* the whole product, however long
uncapped_protein_pairs(domain_prots, slim_prots) == {product(domain_prots, slim_prots)}

\* lines 137-140: the lists random_protein_pair can be bound to.  Of a
\* draw of PairCap pairs the order is not enumerated: it only decides the
\* insertion order of the keys of protein_pairs_dict.
random_protein_pairs(domain_prots, slim_prots) ==
    IF Len(product(domain_prots, slim_prots)) > PairCap
    THEN Subseqs(product(domain_prots, slim_prots), PairCap)
    ELSE {product(domain_prots, slim_prots)}

\* every pair is stored, known or not
store_pair_unfiltered(self, pp) ==
    [self EXCEPT !.protein_pairs_dict =
        Put(@, sorted_pair(pp), ProteinPair(sorted_pair(pp)[1], sorted_pair(pp)[2]))]

\* a known pair is taken out of known_PPIs when it is met
store_pair_consuming_known(self, pp) ==
    IF sorted_pair(pp) \notin self.known_PPIs
    THEN [self EXCEPT !.protein_pairs_dict =
            Put(@, sorted_pair(pp), ProteinPair(sorted_pair(pp)[1], sorted_pair(pp)[2]))]
    ELSE [self EXCEPT !.known_PPIs = @ \ {sorted_pair(pp)}]

\* lines 142-144 for one pp
store_pair(self, pp) ==
    IF sorted_pair(pp) \notin self.known_PPIs
    THEN [self EXCEPT !.protein_pairs_dict =
            Put(@, sorted_pair(pp), ProteinPair(sorted_pair(pp)[1], sorted_pair(pp)[2]))]
    ELSE self

\* lines 141-144: the pairs are stored one after the other, in the order
\* of the list.  The loop is unfolded over the two halves of the list; the
\* first half is stored before the second is begun, and storing takes no
\* pair away.
RECURSIVE store_pairs(_, _)
store_pairs(self, pairs) ==
    IF pairs = <<>> THEN self
    ELSE IF Len(pairs) = 1 THEN store_pair(self, pairs[1])
    ELSE LET half == Len(pairs) \div 2
             stored == store_pairs(self, SubSeq(pairs, 1, half))
         IN  IF Len(stored.protein_pairs_dict) >= Len(self.protein_pairs_dict)
             THEN store_pairs(stored, SubSeq(pairs, half + 1, Len(pairs)))
             ELSE stored

\* lines 146-147 and 149-150: the pairs the selection iterates over, in
\* order
selected_protpairs(protein_pairs_dict, n_instances) ==
    IF Len(protein_pairs_dict) >= n_instances
    THEN random_sample(Keys(protein_pairs_dict), n_instances)
    ELSE {Keys(protein_pairs_dict)}

\* the new instance is put in front
add_instance_in_front(instances, sampled) == sampled \o instances

\* lines 148 and 151: self.RRS_instances + random.sample(..., 1)
add_instance(instances, sampled) == instances \o sampled

\* the instance is drawn from the matches of the first DMI type of the
\* pair, whichever type is processed
RECURSIVE sample_instances_of_any_type(_, _, _, _)
sample_instances_of_any_type(instances, protpairs, protein_pairs_dict, slim_id) ==
    IF protpairs = <<>> THEN {[RRS_instances |-> instances, raised |-> FALSE]}
    ELSE LET matches == Get(protein_pairs_dict, Head(protpairs)).dmi_matches_dict
         IN  IF matches = <<>>
             THEN {[RRS_instances |-> instances, raised |-> TRUE]}
             ELSE UNION { sample_instances_of_any_type(add_instance(instances, sampled),
                                                       Tail(protpairs), protein_pairs_dict,
                                                       slim_id) :
                          sampled \in random_sample(matches[1].val, 1) }

\* the loops of lines 147-148 and 150-151: one instance per pair in turn;
\* dmi_matches_dict[slim_id] raises KeyError for a pair without a match of
\* slim_id, and the instances added before stay
RECURSIVE sample_instances(_, _, _, _)
sample_instances(instances, protpairs, protein_pairs_dict, slim_id) ==
    IF protpairs = <<>> THEN {[RRS_instances |-> instances, raised |-> FALSE]}
    ELSE LET matches == Get(protein_pairs_dict, Head(protpairs)).dmi_matches_dict
         IN  IF slim_id \notin KeySet(matches)
             THEN {[RRS_instances |-> instances, raised |-> TRUE]}
             ELSE UNION { sample_instances(add_instance(instances, sampled), Tail(protpairs),
                                           protein_pairs_dict, slim_id) :
                          sampled \in random_sample(Get(matches, slim_id), 1) }

\* the DMI type and the groups of the round at hand
slim_id == InterfaceHandling.slim_groups[slim_idx].key
slim_prots == InterfaceHandling.slim_groups[slim_idx].val
domain == domains[domain_idx]
domain_prots == Get(InterfaceHandling.domain_groups, domain_key(domain))

\* __main__, lines 178-180: the next replicate label, a new RRSv3Formation
\* object (RRS_instances empty) and the call of the method
ForRRS ==
    /\ pc = "for_RRS"
    /\ RRS < Len(RRS_version)
    /\ RRS' = RRS + 1
    /\ RRS_instances' = <<>>
    /\ slim_idx' = 0
    /\ domains' = <<>>
    /\ domain_idx' = 0
    /\ random_protein_pair' = <<>>
    /\ pc' = "for_slim_id"
    /\ UNCHANGED <<InterfaceHandling, inputs>>

\* __main__, line 178: no replicate label left
AllReplicatesBuilt ==
    /\ pc = "for_RRS"
    /\ RRS = Len(RRS_version)
    /\ pc' = "done"
    /\ UNCHANGED <<InterfaceHandling, inputs, locals, RRS, RRS_instances>>

\* lines 122-130: next DMI type, empty protein_pairs_dict, its domains
ForSlimId ==
    /\ pc = "for_slim_id"
    /\ slim_idx < Len(InterfaceHandling.slim_groups)
    /\ slim_idx' = slim_idx + 1
    /\ InterfaceHandling' = reset_protein_pairs(InterfaceHandling)
    /\ domains' = domains_of(Get(InterfaceHandling.dmi_types_dict,
                                 InterfaceHandling.slim_groups[slim_idx + 1].key))
    /\ domain_idx' = 0
    /\ pc' = "for_domain"
    /\ UNCHANGED <<inputs, RRS, RRS_instances, random_protein_pair>>

\* line 122: no DMI type left, the method returns
SlimIdsExhausted ==
    /\ pc = "for_slim_id"
    /\ slim_idx = Len(InterfaceHandling.slim_groups)
    /\ pc' = "write_out"
    /\ UNCHANGED <<InterfaceHandling, inputs, locals, RRS, RRS_instances>>

\* the selection follows the storing of the pairs at once, before the
\* matcher is called
GeneratePairsThenSelect ==
    /\ pc = "for_domain"
    /\ domain_idx < Len(domains)
    /\ domain_key(domains[domain_idx + 1]) \in KeySet(InterfaceHandling.domain_groups)
    /\ LET prots == Get(InterfaceHandling.domain_groups, domain_key(domains[domain_idx + 1]))
       IN  /\ groups_not_empty(prots, slim_prots)
           /\ \E pairs \in random_protein_pairs(prots, slim_prots) :
                 /\ random_protein_pair' = pairs
                 /\ InterfaceHandling' = store_pairs(InterfaceHandling, pairs)
    /\ domain_idx' = domain_idx + 1
    /\ pc' = "select"
    /\ UNCHANGED <<inputs, RRS, RRS_instances, slim_idx, domains>>

\* lines 131-144: next domain, both groups hold proteins: the protein
\* pairs are drawn and stored
GeneratePairs ==
    /\ pc = "for_domain"
    /\ domain_idx < Len(domains)
    /\ domain_key(domains[domain_idx + 1]) \in KeySet(InterfaceHandling.domain_groups)
    /\ LET prots == Get(InterfaceHandling.domain_groups, domain_key(domains[domain_idx + 1]))
       IN  /\ groups_not_empty(prots, slim_prots)
           /\ \E pairs \in random_protein_pairs(prots, slim_prots) :
                 /\ random_protein_pair' = pairs
                 /\ InterfaceHandling' = store_pairs(InterfaceHandling, pairs)
    /\ domain_idx' = domain_idx + 1
    /\ pc' = "find_DMI_matches"
    /\ UNCHANGED <<inputs, RRS, RRS_instances, slim_idx, domains>>

\* lines 131-136: next domain, one of the groups is empty: nothing is done
SkipEmptyGroup ==
    /\ pc = "for_domain"
    /\ domain_idx < Len(domains)
    /\ domain_key(domains[domain_idx + 1]) \in KeySet(InterfaceHandling.domain_groups)
    /\ ~groups_not_empty(Get(InterfaceHandling.domain_groups, domain_key(domains[domain_idx + 1])),
                         slim_prots)
    /\ domain_idx' = domain_idx + 1
    /\ pc' = "for_domain"
    /\ UNCHANGED <<InterfaceHandling, inputs, RRS, RRS_instances, slim_idx, domains,
                   random_protein_pair>>

\* lines 133 and 135: domain_groups has no such key, KeyError
DomainLookupRaises ==
    /\ pc = "for_domain"
    /\ domain_idx < Len(domains)
    /\ domain_key(domains[domain_idx + 1]) \notin KeySet(InterfaceHandling.domain_groups)
    /\ domain_idx' = domain_idx + 1
    /\ pc' = "raised"
    /\ UNCHANGED <<InterfaceHandling, inputs, RRS, RRS_instances, slim_idx, domains,
                   random_protein_pair>>

\* line 131: no domain left for this DMI type
DomainsExhausted ==
    /\ pc = "for_domain"
    /\ domain_idx = Len(domains)
    /\ pc' = "for_slim_id"
    /\ UNCHANGED <<InterfaceHandling, inputs, locals, RRS, RRS_instances>>

\* line 145
FindDMIMatches ==
    /\ pc = "find_DMI_matches"
    /\ \E answer \in matcher_answers(InterfaceHandling) :
          InterfaceHandling' = find_DMI_matches(InterfaceHandling, answer)
    /\ pc' = "select"
    /\ UNCHANGED <<inputs, locals, RRS, RRS_instances>>

\* line 145: the matcher signals a fault instead of returning
FindDMIMatchesFaults ==
    /\ pc = "find_DMI_matches"
    /\ pc' = "matcher_fault"
    /\ UNCHANGED <<InterfaceHandling, inputs, locals, RRS, RRS_instances>>

\* the fault is caught around the call and the selection goes on
MatcherFaultCaught ==
    /\ pc = "matcher_fault"
    /\ pc' = "select"
    /\ UNCHANGED <<InterfaceHandling, inputs, locals, RRS, RRS_instances>>

\* lines 145-151 and 178-181: no try statement encloses the call of line
\* 145, neither in the method nor in __main__; the exception leaves both
MatcherFaultPropagates ==
    /\ pc = "matcher_fault"
    /\ pc' = "raised"
    /\ UNCHANGED <<InterfaceHandling, inputs, locals, RRS, RRS_instances>>

\* lines 146-151
SelectInstances ==
    /\ pc = "select"
    /\ \E protpairs \in selected_protpairs(InterfaceHandling.protein_pairs_dict, number_instances) :
       \E outcome \in sample_instances(RRS_instances, protpairs,
                                       InterfaceHandling.protein_pairs_dict, slim_id) :
          /\ RRS_instances' = outcome.RRS_instances
          /\ pc' = IF outcome.raised THEN "raised" ELSE "for_domain"
    /\ UNCHANGED <<InterfaceHandling, inputs, locals, RRS>>

\* __main__, line 181: the instances are handed to the serializer
WriteOutRRSInstances ==
    /\ pc = "write_out"
    /\ pc' = "for_RRS"
    /\ UNCHANGED <<InterfaceHandling, inputs, locals, RRS, RRS_instances>>

Next ==
    \/ GetDomainGroups
    \/ GetSlimGroups
    \/ ForRRS
    \/ AllReplicatesBuilt
    \/ ForSlimId
    \/ SlimIdsExhausted
    \/ GeneratePairs
    \/ SkipEmptyGroup
    \/ DomainLookupRaises
    \/ DomainsExhausted
    \/ FindDMIMatches
    \/ FindDMIMatchesFaults
    \/ MatcherFaultPropagates
    \/ SelectInstances
    \/ WriteOutRRSInstances

Spec == Init /\ [][Next]_vars

(***************************************************************************)
(* Properties                                                              *)
(***************************************************************************)

protein_pairs_dict == InterfaceHandling.protein_pairs_dict
known_PPIs == InterfaceHandling.known_PPIs

\* the pair with its two ids in ascending order
Ascending(pp) == IF pp[2] < pp[1] THEN <<pp[2], pp[1]>> ELSE <<pp[1], pp[2]>>

\* the pairs of protein_pairs_dict that have a match of the DMI type t
MatchedPairs(t) ==
    {k \in KeySet(protein_pairs_dict) : t \in KeySet(Get(protein_pairs_dict, k).dmi_matches_dict)}

\* the instances of the collection that belong to the DMI type t
InstancesOf(t) == {i \in 1..Len(RRS_instances) : RRS_instances[i].slim_id = t}

IsPrefix(s, t) == Len(s) <= Len(t) /\ SubSeq(t, 1, Len(s)) = s

\* the pairs the last candidate generation had to store
GeneratedPairs == {Ascending(pp) : pp \in Range(random_protein_pair)} \ known_PPIs

\* C1  Exclusion: no instance of the replicate's collection is drawn from
\* a protein pair whose sorted form is in known_PPIs.
C1_Exclusion ==
    \A i \in 1..Len(RRS_instances) : Ascending(RRS_instances[i].protpair) \notin known_PPIs

\* an instance was selected in a round whose product held a known pair
C1_Witness ==
    /\ pc = "for_domain"
    /\ domain_idx > 0
    /\ groups_not_empty(domain_prots, slim_prots)
    /\ \E pp \in Range(random_protein_pair) : Ascending(pp) \in known_PPIs
    /\ \E i \in 1..Len(RRS_instances) : RRS_instances[i].slim_id = slim_id

\* C2  Selection-count law: a sampling round appends number_instances
\* instances when at least that many pairs have a match of the current DMI
\* type, and one instance per matched pair otherwise.
C2_SelectionCountLaw ==
    [][pc = "select" =>
        Len(RRS_instances') - Len(RRS_instances) =
            IF Cardinality(MatchedPairs(slim_id)) >= number_instances
            THEN number_instances
            ELSE Cardinality(MatchedPairs(slim_id))]_vars

\* C3  No duplicate pairs per DMI type: within one replicate no two
\* instances of one DMI type come from the same protein pair.
C3_NoDuplicatePairs ==
    \A i, j \in 1..Len(RRS_instances) :
        (i # j /\ RRS_instances[i].slim_id = RRS_instances[j].slim_id)
            => Ascending(RRS_instances[i].protpair) # Ascending(RRS_instances[j].protpair)

\* C4  Cap respect: when the matcher is invoked, the pairs generated for
\* the round number at most PairCap and are in protein_pairs_dict.
C4_CapRespect ==
    pc = "find_DMI_matches" =>
        /\ Len(random_protein_pair) <= PairCap
        /\ Cardinality(GeneratedPairs) <= PairCap
        /\ GeneratedPairs \subseteq KeySet(protein_pairs_dict)

\* the product of the two groups exceeds the cap and PairCap pairs are stored
C4_Witness ==
    /\ pc = "find_DMI_matches"
    /\ Len(domain_prots) * Len(slim_prots) > PairCap
    /\ Cardinality(GeneratedPairs) = PairCap
    /\ Len(protein_pairs_dict) = PairCap

\* C5  Canonicalization: every key of protein_pairs_dict has its two ids
\* in sorted order, and a drawn pair that is not a known PPI is found
\* under its sorted form whichever way round it was drawn.
C5_Canonicalization ==
    /\ \A k \in KeySet(protein_pairs_dict) : k[1] <= k[2]
    /\ pc = "find_DMI_matches" =>
          \A pp \in Range(random_protein_pair) :
              Ascending(pp) \notin known_PPIs => Ascending(pp) \in KeySet(protein_pairs_dict)

\* a pair drawn as (b, a) with a < b is stored under (a, b), the key an
\* earlier round of the DMI type stored for the draw (a, b)
C5_Witness ==
    /\ pc = "find_DMI_matches"
    /\ \E i \in 1..Len(random_protein_pair) :
          /\ random_protein_pair[i][2] < random_protein_pair[i][1]
          /\ \E j \in 1..Len(protein_pairs_dict) :
                /\ protein_pairs_dict[j].key =
                       <<random_protein_pair[i][2], random_protein_pair[i][1]>>
                /\ j < Len(protein_pairs_dict)

\* C6  A round in which the matcher reports matches for only some or for
\* none of the pairs completes without raising, and every instance it
\* appends comes from a pair with a match of the current DMI type.
C6_PartialMatchesNoError ==
    [][pc = "select" =>
        /\ pc' # "raised"
        /\ \A i \in (Len(RRS_instances) + 1)..Len(RRS_instances') :
              RRS_instances'[i].protpair \in MatchedPairs(slim_id)]_vars

\* C7  Read-only indexes: after the build phase no step changes
\* domain_groups, slim_groups or known_PPIs; of the state of
\* InterfaceHandling the replicate builds change protein_pairs_dict only,
\* and besides that only the replicate's RRS_instances and the position of
\* the program.
C7_ReadOnlyIndexes ==
    [][pc \notin {"get_domain_groups", "get_slim_groups"} =>
        /\ InterfaceHandling'.domain_groups = InterfaceHandling.domain_groups
        /\ InterfaceHandling'.slim_groups = InterfaceHandling.slim_groups
        /\ InterfaceHandling'.known_PPIs = InterfaceHandling.known_PPIs
        /\ InterfaceHandling'.dmi_types_dict = InterfaceHandling.dmi_types_dict
        /\ InterfaceHandling'.proteins_dict = InterfaceHandling.proteins_dict
        /\ UNCHANGED <<number_instances, RRS_version>>]_vars

\* the last replicate is built, after another one, instances were
\* selected and a known pair was met during generation
C7_Witness ==
    /\ pc = "write_out"
    /\ RRS = Len(RRS_version)
    /\ RRS > 1
    /\ RRS_instances # <<>>
    /\ \E pp \in Range(random_protein_pair) : Ascending(pp) \in known_PPIs

\* C8  For every DMI type the replicate's collection holds at most
\* number_instances instances of that type.
C8_PerTypeCount ==
    \A i \in 1..Len(InterfaceHandling.slim_groups) :
        Cardinality(InstancesOf(InterfaceHandling.slim_groups[i].key)) <= number_instances

\* C9  Empty-group handling: a round whose domain group or motif group is
\* empty stores no pair, invokes neither the matcher nor the selection,
\* appends nothing, raises nothing and goes on to the next domain.
C9_EmptyGroupSkipped ==
    [][(/\ pc = "for_domain"
        /\ domain_idx < Len(domains)
        /\ domain_key(domains[domain_idx + 1]) \in KeySet(InterfaceHandling.domain_groups)
        /\ \/ Get(InterfaceHandling.domain_groups, domain_key(domains[domain_idx + 1])) = <<>>
           \/ slim_prots = <<>>)
       => /\ InterfaceHandling' = InterfaceHandling
          /\ RRS_instances' = RRS_instances
          /\ pc' = "for_domain"
          /\ domain_idx' = domain_idx + 1]_vars

\* the second interface of a DMI type was skipped for its empty domain
\* group while the pairs and instances of the first interface are there
C9_Witness ==
    /\ pc = "for_domain"
    /\ domain_idx = 2
    /\ domain_prots = <<>>
    /\ slim_prots # <<>>
    /\ protein_pairs_dict # <<>>
    /\ RRS_instances # <<>>

\* C10  Append-only collection: while one replicate is built, the
\* collection before a step is a prefix of the collection after it.
C10_AppendOnly ==
    [][RRS' = RRS => IsPrefix(RRS_instances, RRS_instances')]_vars

\* instances of two DMI types were appended one after the other
C10_Witness ==
    /\ Len(RRS_instances) >= 2
    /\ RRS_instances[1].slim_id # RRS_instances[Len(RRS_instances)].slim_id

\* the registered keys of all DMI types of the catalog
RegisteredKeys ==
    UNION { Range(registered_interfaces(InterfaceHandling.dmi_types_dict[i].val)) :
            i \in 1..Len(InterfaceHandling.dmi_types_dict) }

\* the loaded proteins whose domain matches hold every identifier of the key
HoldersOfAll(key) ==
    {p \in KeySet(InterfaceHandling.proteins_dict) :
        Range(key) \subseteq Get(InterfaceHandling.proteins_dict, p).domain_matches_dict}

NoRepeats(s) == \A i, j \in 1..Len(s) : s[i] = s[j] => i = j

\* C11  Domain group membership: after get_domain_groups the keys of
\* domain_groups are the registered keys, each once, of one or two domain
\* identifiers, and the group of a key lists exactly once exactly the loaded
\* proteins whose domain matches hold all identifiers of the key (an empty
\* list when there is none); the build does not raise.  The state is the
\* one get_domain_groups returns in; no later step changes domain_groups.
C11_DomainGroupMembership ==
    pc = "get_slim_groups" =>
        /\ KeySet(InterfaceHandling.domain_groups) = RegisteredKeys
        /\ NoRepeats(Keys(InterfaceHandling.domain_groups))
        /\ \A i \in 1..Len(InterfaceHandling.domain_groups) :
              LET e == InterfaceHandling.domain_groups[i]
              IN  /\ Len(e.key) \in {1, 2}
                  /\ NoRepeats(e.val)
                  /\ Range(e.val) = HoldersOfAll(e.key)

\* the groups are built: a two-domain key has a protein in its group and
\* a protein with one of its two domains only is left out
C11_Witness ==
    /\ pc = "get_slim_groups"
    /\ \E i \in 1..Len(InterfaceHandling.domain_groups) :
          LET e == InterfaceHandling.domain_groups[i]
          IN  /\ Len(e.key) = 2
              /\ e.val # <<>>
              /\ \E p \in KeySet(InterfaceHandling.proteins_dict) :
                    /\ p \notin Range(e.val)
                    /\ Get(InterfaceHandling.proteins_dict, p).domain_matches_dict
                           \cap Range(e.key) # {}

\* the loaded proteins whose slim matches hold the slim id
HoldersOfSlim(id) ==
    {p \in KeySet(InterfaceHandling.proteins_dict) :
        id \in Get(InterfaceHandling.proteins_dict, p).slim_matches_dict}

C13_MatcherFaultPropagation ==
    [][(pc = "matcher_fault" \/ pc = "raised") =>
        /\ UNCHANGED <<RRS, slim_idx, domain_idx>>
        /\ RRS_instances' = RRS_instances
        /\ pc' = "raised"]_vars

\* the matcher faults in the first replicate, in a round that follows a
\* round in which instances were appended
C13_Witness ==
    /\ pc = "matcher_fault"
    /\ RRS < Len(RRS_version)
    /\ RRS_instances # <<>>
    /\ protein_pairs_dict # <<>>

\* the proteins of the domain groups looked up for the domains of the DMI
\* type at hand (lines 131-135)
DomainProtsOfType ==
    UNION { Range(Get(InterfaceHandling.domain_groups, domain_key(domains[k]))) :
            k \in {n \in 1..Len(domains) :
                      domain_key(domains[n]) \in KeySet(InterfaceHandling.domain_groups)} }

\* the sorted pairs of one protein of a domain group and one protein of
\* the motif group of the DMI type at hand
PairsOfType ==
    {Ascending(<<d, s>>) : d \in DomainProtsOfType, s \in Range(slim_prots)}

\* C14  No carry-over between DMI types: protein_pairs_dict is empty when
\* the processing of a DMI type begins, in every replicate; while the type
\* is processed it holds only pairs of one protein of a domain group and
\* one protein of the motif group of this type, and every instance
\* appended comes from such a pair.
C14_NoCarryOver ==
    [][/\ (pc = "for_slim_id" /\ pc' = "for_domain") => protein_pairs_dict' = EmptyDict
       /\ pc = "select" =>
             /\ KeySet(protein_pairs_dict) \subseteq PairsOfType
             /\ \A i \in (Len(RRS_instances) + 1)..Len(RRS_instances') :
                   RRS_instances'[i].protpair \in PairsOfType]_vars

\* in the second replicate the second DMI type is processed and instances
\* of it were appended after instances of the first, whose pairs are gone
C14_Witness ==
    /\ pc = "for_domain"
    /\ RRS = 2
    /\ slim_idx = 2
    /\ domain_idx > 0
    /\ \E i \in 1..Len(RRS_instances) :
          /\ RRS_instances[i].slim_id # slim_id
          /\ RRS_instances[i].protpair \notin KeySet(protein_pairs_dict)
    /\ \E i \in 1..Len(RRS_instances) :
          /\ RRS_instances[i].slim_id = slim_id
          /\ RRS_instances[i].protpair \in KeySet(protein_pairs_dict)

\* C15  Interface resolution: for every domain of the DMI type at hand the
\* key looked up in domain_groups is the complete list of domain
\* identifiers of the corresponding domain interface, that key was
\* registered by get_domain_groups, and the lookup does not fail.
C15_InterfaceResolution ==
    (pc = "for_domain" /\ domain_idx < Len(domains)) =>
        LET domain_interfaces ==
                Get(InterfaceHandling.dmi_types_dict, slim_id).domain_interfaces
        IN  /\ Len(domains) = Len(domain_interfaces)
            /\ domain_key(domains[domain_idx + 1]) = domain_interfaces[domain_idx + 1]
            /\ domain_interfaces[domain_idx + 1] \in RegisteredKeys
            /\ domain_key(domains[domain_idx + 1]) \in KeySet(InterfaceHandling.domain_groups)

\* the sorted pairs of the whole Cartesian product of the two groups of
\* the round at hand, without the known PPIs
FullCandidates ==
    {Ascending(<<d, s>>) : d \in Range(domain_prots), s \in Range(slim_prots)} \ known_PPIs

\* C16  Candidate generation: the pairs a round adds to protein_pairs_dict
\* are the sorted forms of the drawn pairs that are no known PPIs; when
\* the product of the two groups has at most PairCap pairs these are
\* exactly the sorted pairs of the whole product (self pairs included, the
\* two orders of one pair stored once) that are no known PPIs, and when it
\* has more they are among those.
C16_CandidateGeneration ==
    [][(pc = "for_domain" /\ pc' = "find_DMI_matches") =>
        /\ KeySet(protein_pairs_dict') = KeySet(protein_pairs_dict) \cup GeneratedPairs'
        /\ NoRepeats(Keys(protein_pairs_dict'))
        /\ IF Len(domain_prots') * Len(slim_prots') <= PairCap
           THEN GeneratedPairs' = FullCandidates'
           ELSE GeneratedPairs' \subseteq FullCandidates']_vars

\* below the cap a round has stored a self pair, has met both orders of
\* one pair and has left out a known PPI
C16_Witness ==
    /\ pc = "find_DMI_matches"
    /\ Len(domain_prots) * Len(slim_prots) <= PairCap
    /\ \E k \in KeySet(protein_pairs_dict) : k[1] = k[2]
    /\ \E i, j \in 1..Len(random_protein_pair) :
          /\ i # j
          /\ Ascending(random_protein_pair[i]) = Ascending(random_protein_pair[j])
          /\ Ascending(random_protein_pair[i]) \in KeySet(protein_pairs_dict)
    /\ \E pp \in Range(random_protein_pair) : Ascending(pp) \in known_PPIs

\* C17  Round ordering: the matcher is called once in a round, when all
\* pairs of the round are stored, on all pairs of protein_pairs_dict, and
\* it adds no instance; the selection is entered only by the return of the
\* matcher, and only the selection adds instances.
C17_RoundOrdering ==
    [][/\ pc' = "find_DMI_matches" =>
             /\ pc = "for_domain"
             /\ domain_idx' = domain_idx + 1
             /\ GeneratedPairs' \subseteq KeySet(protein_pairs_dict')
       /\ pc = "find_DMI_matches" =>
             /\ pc' = "select" \/ pc' = "matcher_fault"
             /\ Keys(protein_pairs_dict') = Keys(protein_pairs_dict)
             /\ RRS_instances' = RRS_instances
       /\ pc' = "select" => pc = "find_DMI_matches"
       /\ RRS_instances' # RRS_instances => pc = "select" \/ RRS' # RRS]_vars

\* two rounds of one DMI type are over: in each the matcher was called and
\* then an instance was appended
C17_Witness ==
    /\ pc = "for_domain"
    /\ domain_idx = 2
    /\ Cardinality(InstancesOf(slim_id)) >= 2
    /\ \A i \in 1..Len(protein_pairs_dict) :
          slim_id \in KeySet(protein_pairs_dict[i].val.dmi_matches_dict)

\* the place of the DMI type in the iteration order of slim_groups
TypePosition(t) ==
    CHOOSE i \in 1..Len(InterfaceHandling.slim_groups) : InterfaceHandling.slim_groups[i].key = t

\* C18  Per-DMI-type grouping: the DMI types are processed in the order
\* of slim_groups, one after the other; every instance a step appends is a
\* match record of the DMI type that is processed; and in the collection
\* no instance of an earlier DMI type stands behind an instance of a later
\* one, so the instances of one DMI type are contiguous.
C18_PerTypeGrouping ==
    [][/\ (pc = "for_slim_id" /\ pc' = "for_domain") =>
             /\ slim_idx' = slim_idx + 1
             /\ domains' = domains_of(Get(InterfaceHandling.dmi_types_dict,
                                          InterfaceHandling.slim_groups[slim_idx'].key))
       /\ \A i \in (Len(RRS_instances) + 1)..Len(RRS_instances') :
             RRS_instances'[i].slim_id = slim_id
       /\ \A i, j \in 1..Len(RRS_instances') :
             i < j => TypePosition(RRS_instances'[i].slim_id)
                          <= TypePosition(RRS_instances'[j].slim_id)]_vars

\* the second DMI type is processed: the collection holds an instance of
\* the first type and behind it two instances of the second
C18_Witness ==
    /\ pc = "for_domain"
    /\ slim_idx = 2
    /\ Len(RRS_instances) >= 3
    /\ RRS_instances[1].slim_id = InterfaceHandling.slim_groups[1].key
    /\ RRS_instances[Len(RRS_instances) - 1].slim_id = slim_id
    /\ RRS_instances[Len(RRS_instances)].slim_id = slim_id

====
